---- MODULE Spec2Model ----
(***************************************************************************)
(* Model of src/main.rs: a particle simulation.  An App holds a list of    *)
(* entities; the event loop calls App::render and App::update; the only    *)
(* behavior is Walker (a random-walk step); the spawner                    *)
(* gaussian_dots_generator builds the initial population.                  *)
(*                                                                         *)
(* Numbers.  f64 coordinates, sizes and speeds are modelled by integers    *)
(* (exact arithmetic, no rounding).  Rotations are kept in units of pi/4,  *)
(* so PI is 4 and every heading the code writes (k*PI/4) is an integer.    *)
(* Sizes used where the code divides by 2 and 3 are multiples of 6, so     *)
(* that the divisions are exact.  A colour channel is a fraction <<n, d>>. *)
(* Random draws are inputs of the actions.                                 *)
(***************************************************************************)
EXTENDS Integers, Sequences, FiniteSets, TLC

VARIABLES
    args,              \* arguments of the gaussian_dots_generator call
    entities,          \* App.entities
    background_color,  \* App.background_color
    gl,                \* primitives the latest render tick sent to App.gl
    spawned,           \* history: the entity list as first constructed
    sampled,           \* history: the random draws of the latest update tick
    event,             \* history: the latest callback ("start" before any)
    ticks              \* history: number of update ticks so far

vars == <<args, entities, background_color, gl, spawned, sampled, event, ticks>>

----------------------------------------------------------------------------
(* Bounds of the exploration *)

MaxTicks == 3      \* update ticks explored from the spawned state
MaxSeed == 2       \* random streams 0..MaxSeed per spawn and per tick
MaxEntities == 2   \* longest entity list of an arbitrary App

----------------------------------------------------------------------------
(* Program constants *)

PI == 4                \* std::f64::consts::PI, in units of pi/4
SPAWN_COUNT == 300     \* for id in 0..300
SPAWN_SIZE == 10       \* size: 10.0
width == 800
height == 500
MAIN_COUNT == 300      \* gaussian_dots_generator(300, width, height)
ISIZE_MAX == 2147483647  \* isize::MAX of a 32-bit target (Vec capacity limit)
ENTITY_BYTES == 52     \* size_of::<Entity>() on that target

None == "None"
SomeWalker == "Walker"     \* Some(Box::new(Walker {}))

Frac(n, d) == <<n, d>>                                  \* n / d as f32
Color(r, g, b, a) == <<Frac(r, 1), Frac(g, 1), Frac(b, 1), Frac(a, 1)>>

Physics(x, y, size, rotation) ==
    [x |-> x, y |-> y, size |-> size, rotation |-> rotation]

----------------------------------------------------------------------------
(* Renderers: each draw emits one primitive under a transform *)

RectangleSquare(x, y, w) == <<x, y, w, w>>       \* rectangle::square
Trans(x, y) == [op |-> "trans", x |-> x, y |-> y, a |-> 0]
RotRad(a) == [op |-> "rot_rad", x |-> 0, y |-> 0, a |-> a]

SquareDraw(color, physics) ==
    LET square == RectangleSquare(0, 0, physics.size)
        x == physics.x - physics.size \div 2
        y == physics.y - physics.size \div 2
    IN  [prim |-> "rectangle", color |-> color,
         points |-> <<>>, rect |-> square,
         transform |-> <<Trans(x, y), RotRad(physics.rotation)>>]

ArrowDraw(color, physics) ==
    LET x == physics.x
        y == physics.y - physics.size \div 2
    IN  [prim |-> "polygon", color |-> color,
         points |-> << <<0, (-physics.size) \div 2>>,
                       <<(-physics.size) \div 3, physics.size \div 2>>,
                       <<physics.size \div 3, physics.size \div 2>> >>,
         rect |-> <<>>,
         transform |-> <<Trans(x, y), RotRad(physics.rotation)>>]

CircleDraw(color, physics) ==
    LET square == RectangleSquare(0, 0, physics.size)
        x == physics.x - physics.size \div 2
        y == physics.y - physics.size \div 2
    IN  [prim |-> "ellipse", color |-> color,
         points |-> <<>>, rect |-> square,
         transform |-> <<Trans(x, y)>>]

draw(renderer, physics) ==
    CASE renderer.shape = "Square" -> SquareDraw(renderer.color, physics)
      [] renderer.shape = "Arrow"  -> ArrowDraw(renderer.color, physics)
      [] renderer.shape = "Circle" -> CircleDraw(renderer.color, physics)

Clear(color) ==
    [prim |-> "clear", color |-> color, points |-> <<>>, rect |-> <<>>,
     transform |-> <<>>]

\* faulty variant: the frame is drawn without clearing the screen first
render_without_clear(ents, bg) ==
    [i \in 1..Len(ents) |-> draw(ents[i].renderer, ents[i].physics)]

render(ents, bg) ==
    <<Clear(bg)>> \o [i \in 1..Len(ents) |-> draw(ents[i].renderer, ents[i].physics)]

----------------------------------------------------------------------------
(* Walker *)

Directions == (-1)..(2 - 1)        \* rng.gen_range(-1..2)
SpeedValues == <<2, -1, 0>>        \* values of Normal(2.0, 1.0): any sign
Speeds == {SpeedValues[j] : j \in 1..Len(SpeedValues)}

Draw(dx, dy, speed) == [drawn |-> TRUE, dx |-> dx, dy |-> dy, speed |-> speed]
NoDraw == [drawn |-> FALSE, dx |-> 0, dy |-> 0, speed |-> 0]
Draws == {Draw(dx, dy, speed) : dx \in Directions, dy \in Directions, speed \in Speeds}

\* faulty variant: the two diagonal headings of dx = -1 are exchanged
WalkerRotation_swapped(dx, dy, rotation) ==
    CASE dx = -1 ->
           (CASE dy = -1 -> (-3 * PI) \div 4
              [] dy = 1  -> (-PI) \div 4
              [] OTHER   -> (-PI) \div 2)
      [] dx = 1 ->
           (CASE dy = -1 -> PI \div 4
              [] dy = 1  -> (3 * PI) \div 4
              [] OTHER   -> PI \div 2)
      [] OTHER ->
           (CASE dy = -1 -> 0
              [] dy = 1  -> PI
              [] OTHER   -> rotation)

WalkerRotation(dx, dy, rotation) ==
    CASE dx = -1 ->
           (CASE dy = -1 -> (-PI) \div 4
              [] dy = 1  -> (-3 * PI) \div 4
              [] OTHER   -> (-PI) \div 2)
      [] dx = 1 ->
           (CASE dy = -1 -> PI \div 4
              [] dy = 1  -> (3 * PI) \div 4
              [] OTHER   -> PI \div 2)
      [] OTHER ->
           (CASE dy = -1 -> 0
              [] dy = 1  -> PI
              [] OTHER   -> rotation)

\* faulty variant: y is advanced by the x direction
apply_behavior_y_by_dx(entity, d) ==
    LET moved == [entity EXCEPT !.physics.x = @ + d.dx * d.speed,
                                !.physics.y = @ + d.dx * d.speed]
    IN  [moved EXCEPT !.physics.rotation = WalkerRotation(d.dx, d.dy, @)]

\* faulty variant: a negative speed is clamped to zero
apply_behavior_speed_clamped(entity, d) ==
    LET speed == IF d.speed < 0 THEN 0 ELSE d.speed
        moved == [entity EXCEPT !.physics.x = @ + d.dx * speed,
                                !.physics.y = @ + d.dy * speed]
    IN  [moved EXCEPT !.physics.rotation = WalkerRotation(d.dx, d.dy, @)]

\* faulty variant: the position is clamped to the window
apply_behavior_window_clamped(entity, d) ==
    LET Clamp(v, hi) == IF v < 0 THEN 0 ELSE IF v > hi THEN hi ELSE v
        moved == [entity EXCEPT
                    !.physics.x = Clamp(@ + d.dx * d.speed, width),
                    !.physics.y = Clamp(@ + d.dy * d.speed, height)]
    IN  [moved EXCEPT !.physics.rotation = WalkerRotation(d.dx, d.dy, @)]

apply_behavior(entity, d) ==
    LET random_x_direction == d.dx
        random_y_direction == d.dy
        speed == d.speed
        moved == [entity EXCEPT
                    !.physics.x = @ + random_x_direction * speed,
                    !.physics.y = @ + random_y_direction * speed]
    IN  [moved EXCEPT !.physics.rotation =
            WalkerRotation(random_x_direction, random_y_direction, @)]

\* faulty variant: the behavior taken out of the entity is not put back
update_entity_not_rearmed(entity, d) ==
    IF entity.behavior # None
    THEN apply_behavior([entity EXCEPT !.behavior = None], d)
    ELSE entity

\* faulty variant: the behavior is applied and re-armed whether or not one is held
update_entity_unconditional(entity, d) ==
    [apply_behavior([entity EXCEPT !.behavior = None], d) EXCEPT !.behavior = SomeWalker]

update_entity(entity, d) ==
    IF entity.behavior # None
    THEN LET taken == [entity EXCEPT !.behavior = None]   \* behavior.take()
             applied == apply_behavior(taken, d)
         IN  [applied EXCEPT !.behavior = SomeWalker]
    ELSE entity

\* faulty variant: the list comes out in reverse order
update_reversed(ents, draws) ==
    [i \in 1..Len(ents) |->
        update_entity(ents[Len(ents) + 1 - i], draws[Len(ents) + 1 - i])]

update(ents, draws) ==
    [i \in 1..Len(ents) |-> update_entity(ents[i], draws[i])]

----------------------------------------------------------------------------
(* Spawner *)

color_generator(x, y, w, h) ==
    LET red == Frac(x, w)
        green == Frac(y, h)
    IN  <<red, green, Frac(0, 1), Frac(1, 1)>>

\* Vec::with_capacity(size) panics when size * size_of::<Entity>() exceeds
\* isize::MAX bytes.
CapacityOverflow(size) == size > ISIZE_MAX \div ENTITY_BYTES

\* The values of the two Normal samplers: mean, mean +/- 3 sd, mean +/- 4 sd.
NormalValues(mean, sd) ==
    <<mean, mean - 3 * sd, mean + 3 * sd, mean - 4 * sd, mean + 4 * sd>>

\* Random stream r: the k-th value drawn by x_normal and by y_normal.
SampleX(r, k, w) == NormalValues(w \div 2, w \div 6)[((r + k) % 5) + 1]
SampleY(r, k, h) == NormalValues(h \div 2, h \div 6)[((r + k \div 5) % 5) + 1]

SpawnEntity(id, x, y, w, h) ==
    [physics |-> Physics(x, y, SPAWN_SIZE, 0),
     renderer |-> [shape |-> "Circle", color |-> color_generator(x, y, w, h)],
     behavior |-> SomeWalker,
     _id |-> id]

\* faulty variant: the loop runs over the size argument
gaussian_dots_generator_sized(size, w, h, r) ==
    IF CapacityOverflow(size)
    THEN [panicked |-> TRUE, entities |-> <<>>]
    ELSE [panicked |-> FALSE,
          entities |-> [k \in 1..size |->
                          SpawnEntity(k - 1, SampleX(r, k - 1, w),
                                      SampleY(r, k - 1, h), w, h)]]

gaussian_dots_generator(size, w, h, r) ==
    IF CapacityOverflow(size)
    THEN [panicked |-> TRUE, entities |-> <<>>]
    ELSE [panicked |-> FALSE,
          entities |-> [k \in 1..SPAWN_COUNT |->
                          SpawnEntity(k - 1, SampleX(r, k - 1, w),
                                      SampleY(r, k - 1, h), w, h)]]

----------------------------------------------------------------------------
(* The program: main builds the App, then the event loop calls render and  *)
(* update.                                                                 *)

Seeds == 0..MaxSeed

\* Random stream s of an update tick: the draws of the i-th entity.
StreamDraw(s, i) ==
    LET k == s + i
    IN  Draw(-1 + (k % 3), -1 + ((k \div 3) % 3), SpeedValues[((k \div 9) % 3) + 1])

DrawsFor(ents, s) ==
    [i \in 1..Len(ents) |-> IF ents[i].behavior # None THEN StreamDraw(s, i) ELSE NoDraw]

MainArgs == [size |-> MAIN_COUNT, width |-> width, height |-> height]

Init ==
    /\ args = MainArgs
    /\ \E r \in Seeds :
         entities = gaussian_dots_generator(args.size, args.width, args.height, r).entities
    /\ spawned = entities
    /\ background_color = Color(0, 1, 0, 1)
    /\ gl = <<>>
    /\ sampled = <<>>
    /\ event = "start"
    /\ ticks = 0

Render ==
    /\ event \in {"start", "render", "update"}
    /\ gl' = render(entities, background_color)
    /\ event' = "render"
    /\ UNCHANGED <<args, entities, background_color, spawned, sampled, ticks>>

UpdateWith(draws) ==
    /\ entities' = update(entities, draws)
    /\ sampled' = draws
    /\ event' = "update"
    /\ ticks' = ticks + 1
    /\ UNCHANGED <<args, background_color, gl, spawned>>

Update ==
    /\ event \in {"start", "render", "update"}
    /\ ticks < MaxTicks
    /\ \E s \in Seeds : UpdateWith(DrawsFor(entities, s))

Next == Render \/ Update

Spec == Init /\ [][Next]_vars

----------------------------------------------------------------------------
(* The callbacks as functions of an arbitrary App: App::render and         *)
(* App::update applied to entity lists that main never builds (Square and  *)
(* Arrow renderers, an absent behavior, any prior rotation), with every    *)
(* combination of per-entity draws.                                        *)

Entity(shape, color, physics, behavior) ==
    [physics |-> physics, renderer |-> [shape |-> shape, color |-> color],
     behavior |-> behavior, _id |-> 0]

EntityKinds ==
    { Entity("Square", Color(1, 0, 0, 1), Physics(0, 0, 6, 0), SomeWalker),
      Entity("Arrow", Color(0, 0, 1, 1), Physics(5, -3, 12, 7), SomeWalker),
      Entity("Circle", Color(1, 1, 0, 1), Physics(width, height, 6, -5), None) }

WithIds(ents) == [i \in 1..Len(ents) |-> [ents[i] EXCEPT !._id = i - 1]]

EntityLists ==
    UNION { {WithIds(l) : l \in [1..n -> EntityKinds]} : n \in 0..MaxEntities }

DrawChoices(ents) ==
    [i \in 1..Len(ents) |-> IF ents[i].behavior # None THEN Draws ELSE {NoDraw}]

\* every assignment of draws to the entities that hold a behavior
AllDraws(ents) ==
    {f \in [1..Len(ents) -> Draws \cup {NoDraw}] :
        \A i \in 1..Len(ents) : f[i] \in DrawChoices(ents)[i]}

InitAny ==
    /\ args = MainArgs
    /\ entities \in EntityLists
    /\ spawned = entities
    /\ background_color \in {Color(0, 1, 0, 1), Color(0, 0, 0, 1)}
    /\ gl = <<>>
    /\ sampled = <<>>
    /\ event = "start"
    /\ ticks = 0

UpdateOnce ==
    /\ event \in {"start", "render"}
    /\ ticks = 0
    /\ \E draws \in AllDraws(entities) : UpdateWith(draws)

NextAny == Render \/ UpdateOnce

SpecAny == InitAny /\ [][NextAny]_vars

----------------------------------------------------------------------------
(* The spawner as a function of its arguments.                             *)

Counts == {0, 1, SPAWN_COUNT - 1, SPAWN_COUNT, SPAWN_COUNT + 1, ISIZE_MAX}
Widths == {1, width, 2 * width}
Heights == {1, height}

InitSpawn ==
    /\ args \in [size : Counts, width : Widths, height : Heights]
    /\ entities = <<>>
    /\ spawned = <<>>
    /\ background_color = Color(0, 1, 0, 1)
    /\ gl = <<>>
    /\ sampled = <<>>
    /\ event = "call"
    /\ ticks = 0

Spawn ==
    /\ event = "call"
    /\ \E r \in Seeds :
         LET res == gaussian_dots_generator(args.size, args.width, args.height, r)
         IN  /\ event' = IF res.panicked THEN "panic" ELSE "spawned"
             /\ entities' = res.entities
             /\ spawned' = res.entities
    /\ UNCHANGED <<args, background_color, gl, sampled, ticks>>

NextSpawn == Spawn

SpecSpawn == InitSpawn /\ [][NextSpawn]_vars

----------------------------------------------------------------------------
(* Properties *)

IsUpdateStep == ticks' = ticks + 1
IsRenderStep == event' = "render" /\ ticks' = ticks

\* The heading table of the specification, in units of pi/4.
HeadingTable ==
    (<<-1, -1>> :> -1) @@ (<<-1, 0>> :> -2) @@ (<<-1, 1>> :> -3) @@
    (<<1, -1>> :> 1) @@ (<<1, 0>> :> 2) @@ (<<1, 1>> :> 3) @@
    (<<0, -1>> :> 0) @@ (<<0, 1>> :> 4)

Heading(dx, dy, prior) ==
    IF dx = 0 /\ dy = 0 THEN prior ELSE HeadingTable[<<dx, dy>>]

InWindow(p) == p.x >= 0 /\ p.x <= width /\ p.y >= 0 /\ p.y <= height

\* C1: a Walker step sets the rotation to the table value of (dx, dy), and
\* leaves it at its prior value for (0, 0), whatever the prior rotation.
C1_RotationTable ==
    [][IsUpdateStep =>
        \A i \in 1..Len(entities) :
            sampled'[i].drawn =>
                entities'[i].physics.rotation =
                    Heading(sampled'[i].dx, sampled'[i].dy, entities[i].physics.rotation)]_vars

C1_Witness ==
    /\ event = "update"
    /\ \E i, j \in 1..Len(entities) :
         /\ sampled[i].drawn /\ sampled[i].dx = 0 /\ sampled[i].dy = 0
         /\ spawned[i].physics.rotation = 7 /\ entities[i].physics.rotation = 7
         /\ sampled[j].drawn /\ sampled[j].dx = -1 /\ sampled[j].dy = 1
         /\ spawned[j].physics.rotation = 0 /\ entities[j].physics.rotation = -3

\* C2: a Walker step leaves the entity at x + dx*speed, y + dy*speed, with
\* one speed for both axes, for every position, direction and speed.
C2_Displacement ==
    [][IsUpdateStep =>
        \A i \in 1..Len(entities) :
            sampled'[i].drawn =>
                /\ entities'[i].physics.x =
                       entities[i].physics.x + sampled'[i].dx * sampled'[i].speed
                /\ entities'[i].physics.y =
                       entities[i].physics.y + sampled'[i].dy * sampled'[i].speed]_vars

C2_Witness ==
    /\ event = "update"
    /\ \E i, j \in 1..Len(entities) :
         /\ sampled[i] = Draw(1, -1, -1)
         /\ entities[i].physics.x = spawned[i].physics.x - 1
         /\ entities[i].physics.y = spawned[i].physics.y + 1
         /\ sampled[j] = Draw(-1, 1, 0)
         /\ entities[j].physics.x = spawned[j].physics.x
         /\ entities[j].physics.y = spawned[j].physics.y

C4_BehaviorPresent ==
    \A i \in 1..Len(entities) : entities[i].behavior = SomeWalker

C4_Witness ==
    /\ event = "render"
    /\ ticks >= 2
    /\ Len(entities) > 0
    /\ \A i \in 1..Len(entities) : entities[i].behavior = SomeWalker

Moved(i) ==
    \/ entities'[i].physics.x # entities[i].physics.x
    \/ entities'[i].physics.y # entities[i].physics.y

\* C5 as claimed: in an update tick every entity whose sampled (dx, dy) is
\* not (0, 0) ends at a position different from the one it had.
C5_MovesUnlessNoDirection ==
    [][IsUpdateStep =>
        \A i \in 1..Len(entities) :
            (sampled'[i].drawn /\ <<sampled'[i].dx, sampled'[i].dy>> # <<0, 0>>)
                => Moved(i)]_vars

\* C5 as amended: in an update tick an entity's position changes exactly
\* when its sampled (dx, dy) is not (0, 0) and its sampled speed is not 0.
C5_MovesIffDisplacementNonZero ==
    [][IsUpdateStep =>
        \A i \in 1..Len(entities) :
            sampled'[i].drawn =>
                (Moved(i) <=>
                    (<<sampled'[i].dx, sampled'[i].dy>> # <<0, 0>>
                     /\ sampled'[i].speed # 0))]_vars

C5_Witness ==
    /\ event = "update"
    /\ ticks = 1
    /\ \E i, j \in 1..Len(entities) :
         /\ sampled[i].dx # 0 /\ sampled[i].speed = 0
         /\ entities[i].physics.x = spawned[i].physics.x
         /\ entities[i].physics.y = spawned[i].physics.y
         /\ sampled[j].dx # 0 /\ sampled[j].speed < 0
         /\ entities[j].physics.x # spawned[j].physics.x

\* C6: after startup the entity list is never grown, shrunk or reordered:
\* its length and the id at each index stay what the spawner produced, and
\* only the physics of an entity changes.
C6_PopulationFixed ==
    /\ Len(entities) = Len(spawned)
    /\ \A i \in 1..Len(spawned) :
         /\ entities[i]._id = spawned[i]._id
         /\ entities[i]._id = i - 1
         /\ entities[i].renderer = spawned[i].renderer
         /\ entities[i].behavior = spawned[i].behavior

C6_Witness ==
    /\ event = "update"
    /\ ticks >= 2
    /\ Len(entities) = 300
    /\ \E i \in 1..Len(entities) : entities[i].physics # spawned[i].physics
    /\ \A i \in 1..Len(entities) : entities[i]._id = i - 1

RECURSIVE SumOf(_, _)
SumOf(points, k) ==
    IF points = <<>> THEN 0 ELSE Head(points)[k] + SumOf(Tail(points), k)

\* the vertices of a primitive, before its transform
Vertices(cmd) ==
    IF cmd.prim = "polygon"
    THEN cmd.points
    ELSE LET r == cmd.rect
         IN  << <<r[1], r[2]>>, <<r[1] + r[3], r[2]>>,
                <<r[1] + r[3], r[2] + r[4]>>, <<r[1], r[2] + r[4]>> >>

\* the centroid of the vertices after the translation is (x, y)
CentroidAt(cmd, x, y) ==
    LET v == Vertices(cmd)
        t == cmd.transform[1]
    IN  /\ t.op = "trans"
        /\ SumOf(v, 1) + Len(v) * t.x = Len(v) * x
        /\ SumOf(v, 2) + Len(v) * t.y = Len(v) * y

\* C7: Square.draw and Arrow.draw place the shape so that the centroid of
\* its vertices, after the translation and before the rotation, is the
\* entity's position (x, y).
C7_CentroidAtPosition ==
    event = "render" =>
        \A i \in 1..Len(entities) :
            entities[i].renderer.shape \in {"Square", "Arrow"} =>
                CentroidAt(gl[i + 1], entities[i].physics.x, entities[i].physics.y)

\* C8: a render tick emits one clear to the background color, then one
\* draw per entity in list order, each for that entity's current physics,
\* and changes no entity.
C8_RenderFrame ==
    [][IsRenderStep =>
        /\ Len(gl') = Len(entities) + 1
        /\ gl'[1].prim = "clear"
        /\ gl'[1].color = background_color
        /\ \A i \in 1..Len(entities) :
             /\ gl'[i + 1].prim # "clear"
             /\ gl'[i + 1] = draw(entities[i].renderer, entities[i].physics)
             /\ gl'[i + 1].color = entities[i].renderer.color
             /\ gl'[i + 1].transform[1].x =
                    entities[i].physics.x - entities[i].physics.size \div 2
             /\ gl'[i + 1].transform[1].y =
                    entities[i].physics.y - entities[i].physics.size \div 2
        /\ entities' = entities]_vars

C8_Witness ==
    /\ event = "render"
    /\ ticks >= 2
    /\ Len(gl) = Len(entities) + 1
    /\ gl[1].prim = "clear"
    /\ \E i \in 1..Len(entities) :
         /\ entities[i].physics.x # spawned[i].physics.x
         /\ gl[i + 1].transform[1].x =
                entities[i].physics.x - entities[i].physics.size \div 2

\* C9: an update tick changes only x, y and rotation of the entities that
\* hold a behavior, each by one Walker step of its own draws; size, id and
\* renderer stay, and an entity without behavior is left as it was.
C9_UpdateFrame ==
    [][IsUpdateStep =>
        /\ Len(entities') = Len(entities)
        /\ \A i \in 1..Len(entities) :
             LET e == entities[i]
                 f == entities'[i]
                 d == sampled'[i]
             IN  /\ f.physics.size = e.physics.size
                 /\ f._id = e._id
                 /\ f.renderer = e.renderer
                 /\ e.behavior = None => (f = e /\ ~d.drawn)
                 /\ e.behavior # None =>
                      /\ d.drawn
                      /\ f.physics.x = e.physics.x + d.dx * d.speed
                      /\ f.physics.y = e.physics.y + d.dy * d.speed
                      /\ f.physics.rotation = Heading(d.dx, d.dy, e.physics.rotation)]_vars

C9_Witness ==
    /\ event = "update"
    /\ Len(entities) = 2
    /\ spawned[1].behavior = None
    /\ entities[1] = spawned[1]
    /\ spawned[2].behavior # None
    /\ entities[2].physics.x # spawned[2].physics.x
    /\ entities[2].physics.size = spawned[2].physics.size
    /\ entities[2].renderer = spawned[2].renderer

\* C10: Walker steps are not clamped to the window or to a sign: a step
\* that ends outside the window, or that has a negative speed, still moves
\* the entity by dx*speed, dy*speed and sets the table heading of (dx, dy).
C10_NoClamp ==
    [][IsUpdateStep =>
        \A i \in 1..Len(entities) :
            LET e == entities[i].physics
                d == sampled'[i]
                target == [e EXCEPT !.x = @ + d.dx * d.speed,
                                    !.y = @ + d.dy * d.speed,
                                    !.rotation = Heading(d.dx, d.dy, @)]
            IN  (d.drawn /\ (d.speed < 0 \/ ~InWindow(target)))
                    => entities'[i].physics = target]_vars

\* an entity spawned inside the window has walked out of it, on a step of
\* negative speed
C10_Witness ==
    /\ event = "update"
    /\ \E i \in 1..Len(entities) :
         /\ InWindow(spawned[i].physics)
         /\ ~InWindow(entities[i].physics)
         /\ sampled[i].speed < 0
         /\ sampled[i].dx = 1
         /\ entities[i].physics.x < 0
         /\ entities[i].physics.rotation = Heading(1, sampled[i].dy, 0)

====
